---- MODULE Spec2Model ----
(***************************************************************************)
(* Example 6 of smart_pointer_examples.cpp: the command-pattern undo/redo  *)
(* manager.  A CommandManager owns two stacks of unique_ptr<Command>; the  *)
(* commands mutate a caller-owned int through a reference.                 *)
(*                                                                         *)
(* A stack is a sequence whose LAST element is the top.  The int has W     *)
(* bits, two's complement; += -= *= wrap, /= truncates toward zero, and    *)
(* the two undefined divisions (by zero, MinInt / -1) either trap or give  *)
(* the value the hardware without a trap gives.                            *)
(*                                                                         *)
(* Further: TextEditor and isBalanced of stack_examples.cpp, CircularBuffer*)
(* and DynamicArray of pointer_examples.cpp, and the weak_ptr Cache of     *)
(* smart_pointer_examples.cpp.  Each program has its own variables and its *)
(* own specification; the variables of the others stay as constructed.     *)
(* Pointers into an array are offsets from its first cell; the cells of a  *)
(* new int[] hold an indeterminate value until they are assigned.          *)
(***************************************************************************)
EXTENDS Integers, Sequences, FiniteSets, TLC

\* ------------------------------------------------------------------ bounds
\* width of int in the model
W == 7
\* largest number of commands the two stacks hold together
MaxDepth == 3

RECURSIVE Pow2(_)
Pow2(n) == IF n = 0 THEN 1 ELSE 2 * Pow2(n - 1)

MinInt == 0 - Pow2(W - 1)
MaxInt == Pow2(W - 1) - 1

\* the values main() may bind the commands to, and the operands it may pass
StartValues == {0, 10}
Amounts == {1, 5, 10}
Factors == {0, 2}

\* the same for a main() that makes n executeCommand calls, then at most n
\* undo() calls, then redo() calls, and for a caller of one command alone
RunStartValues == {MinInt, -7, 0, 10, 40}
RunAmounts == {-3, 5}
RunFactors == {-1, 0, 2, 3}
Operands == MinInt..MaxInt

\* the same for a main() that keeps book of what each call found, and for
\* one that keeps book of the addresses of the commands it handed over
BookStartValues == {10, 40}
BookAmounts == {5}
BookFactors == {0, 2, 3}
OwnerStartValues == {10}
OwnerAmounts == {5}
OwnerFactors == {0, 2}

\* largest number of saved texts the two stacks of a TextEditor hold together
MaxEdits == 3
\* the texts main() may type
Texts == {"", "Hello", "!"}

\* largest capacity of a CircularBuffer, and how many write() calls succeed
MaxCap == 3
MaxWrites == 7
\* the values main() may write, and what an uninitialised int may hold
BufferValues == {10, 20}
Indeterminate == {-1, 0}

\* how many values a DynamicArray is pushed, and the values main() may push
MaxSize == 5
ArrayValues == {1, 2}

\* how many objects main() makes for a Cache, and the keys it uses
MaxObjects == 3
Keys == {"key1", "key2"}

\* longest expression isBalanced is given, and the characters it is made of
MaxLen == 4
Characters == {"(", ")", "[", "]", "{", "}", "a"}

\* ------------------------------------------------------------- int arithmetic
Wrap(x) == ((x + Pow2(W - 1)) % Pow2(W)) - Pow2(W - 1)

Abs(x) == IF x < 0 THEN 0 - x ELSE x

\* C++ integer division: the quotient truncated toward zero (b # 0)
TruncDiv(a, b) ==
    IF (a < 0) = (b < 0) THEN Abs(a) \div Abs(b) ELSE 0 - (Abs(a) \div Abs(b))

\* ------------------------------------------------------------------ state
VARIABLES
    value,      \* int value of main(), the target every command refers to
    undoStack,  \* CommandManager::undoStack
    redoStack,  \* CommandManager::redoStack
    fault,      \* the process was killed by an arithmetic trap
    out,        \* the line the last call printed ("" if it printed none)
    lastOp,     \* the CommandManager call main() made last
    prevOp,     \* the call before that
    lastCmd,    \* the command the last call ran execute() or undo() on
    prev,       \* the target's value before the last Command::execute()
    pc,         \* where a caller that drives one command directly stands
    cleared,    \* how many entries the last executeCommand popped off redoStack
    run,        \* shape of the calls made so far: execute^n undo^m redo^k
    step,       \* how far the calls follow the documented scenario
    start,      \* the value main() gave the target before its first call
    exact,      \* no += -= *= so far left the int range, no /= had divisor 0
    atCall,     \* the target and the stacks as the last call found them
    freed,      \* the addresses of the commands the last call destroyed
    label       \* the string the last describe() returned

\* TextEditor of stack_examples.cpp and the caller's book of it
VARIABLES
    currentText,      \* TextEditor::currentText
    editorUndoStack,  \* TextEditor::undoStack
    editorRedoStack,  \* TextEditor::redoStack
    editorOut,        \* the line the last TextEditor call printed
    editorOp,         \* the last two TextEditor calls main() made
    typed,            \* the texts typed and not undone, oldest first
    undone            \* the texts typed and undone, last undone on top

\* isBalanced of stack_examples.cpp
VARIABLES
    expression,       \* the argument, one character per element
    verdict           \* what isBalanced returned and where (NoVerdict before)

\* CircularBuffer of pointer_examples.cpp and the caller's book of it
VARIABLES
    buffer,           \* the cells of new int[capacity]
    bufferCapacity,   \* CircularBuffer::capacity
    writePtr,         \* CircularBuffer::writePtr, as an offset from buffer
    readPtr,          \* CircularBuffer::readPtr, as an offset from buffer
    count,            \* CircularBuffer::count
    ret,              \* what the last write() or read() returned
    slot,             \* the caller's int that read() is given the address of
    bufferOp,         \* the CircularBuffer call main() made last
    pending,          \* the values written and not yet read, oldest first
    written           \* how many write() calls have returned true

\* DynamicArray of pointer_examples.cpp and the caller's book of it
VARIABLES
    data,             \* the cells of DynamicArray::data
    size,             \* DynamicArray::size
    arrayCapacity,    \* DynamicArray::capacity
    pushed,           \* the arguments of the push() calls, in call order
    element           \* what the last operator[] read

\* Cache of smart_pointer_examples.cpp and the owners around it
VARIABLES
    cache,            \* Cache::cache: key -> the object its weak_ptr refers to
    owned,            \* the objects some shared_ptr outside the cache owns
    made,             \* how many objects make_shared has made
    got,              \* what the last get() returned, still held by main()
    counted,          \* what the last size() returned
    cacheOp,          \* the Cache call main() made last, and its key
    stored            \* key -> the object of the last put(), if any

managerVars == <<value, undoStack, redoStack, fault, out, lastOp, prevOp,
                 lastCmd, prev, pc, cleared, run, step, start, exact, atCall,
                 freed, label>>

editorVars == <<currentText, editorUndoStack, editorRedoStack, editorOut,
                editorOp, typed, undone>>

bracketVars == <<expression, verdict>>

bufferVars == <<buffer, bufferCapacity, writePtr, readPtr, count, ret, slot,
                bufferOp, pending, written>>

arrayVars == <<data, size, arrayCapacity, pushed, element>>

cacheVars == <<cache, owned, made, got, counted, cacheOp, stored>>

\* the other programs of the repository, which a CommandManager never touches
elsewhere == <<editorVars, bracketVars, bufferVars, arrayVars, cacheVars>>

vars == <<managerVars, elsewhere>>

\* what only a main() that keeps book of its commands looks at
ownerVars == <<start, exact, atCall, freed, label>>

\* isBalanced has not been called
NoVerdict == [balanced |-> FALSE, at |-> -1]

\* a program main() has not yet reached: its objects are not constructed
NoObject == 0

EditorIdle ==
    /\ currentText = ""
    /\ editorUndoStack = <<>>
    /\ editorRedoStack = <<>>
    /\ editorOut = ""
    /\ editorOp = <<"none", "none">>
    /\ typed = <<>>
    /\ undone = <<>>

BracketIdle ==
    /\ expression = <<>>
    /\ verdict = NoVerdict

BufferIdle ==
    /\ buffer = <<>>
    /\ bufferCapacity = 0
    /\ writePtr = 0
    /\ readPtr = 0
    /\ count = 0
    /\ ret = "none"
    /\ slot = 0
    /\ bufferOp = "none"
    /\ pending = <<>>
    /\ written = 0

ArrayIdle ==
    /\ data = <<>>
    /\ size = 0
    /\ arrayCapacity = 0
    /\ pushed = <<>>
    /\ element = 0

CacheIdle ==
    /\ cache = <<>>
    /\ owned = {}
    /\ made = 0
    /\ got = NoObject
    /\ counted = 0
    /\ cacheOp = <<"none", "">>
    /\ stored = <<>>

ElsewhereIdle ==
    EditorIdle /\ BracketIdle /\ BufferIdle /\ ArrayIdle /\ CacheIdle

\* ------------------------------------------------------------------ stacks
Top(s) == s[Len(s)]
Pop(s) == SubSeq(s, 1, Len(s) - 1)
Push(s, c) == Append(s, c)

\* if (!redoStack.empty()) redoStack.pop();  -- one pop where a loop is needed
ClearStack_once(s) == IF s # <<>> THEN Pop(s) ELSE s

\* while (!redoStack.empty()) redoStack.pop();
RECURSIVE ClearStack(_)
ClearStack(s) == IF s # <<>> THEN ClearStack(Pop(s)) ELSE s

\* ---------------------------------------------------------------- commands
NoCmd == [type |-> "none", operand |-> 0]

\* make_unique<AddCommand>(value, amt), make_unique<MultiplyCommand>(value, fac)
AddCommand(amt) == [type |-> "AddCommand", operand |-> amt]
MultiplyCommand(fac) == [type |-> "MultiplyCommand", operand |-> fac]

\* value += amount
AddCommand_execute(amount, v) == Wrap(v + amount)
\* value += amount;  -- undo() repeating execute()
AddCommand_undo_adds(amount, v) == {[fault |-> FALSE, value |-> Wrap(v + amount)]}

\* value -= amount
AddCommand_undo(amount, v) == {[fault |-> FALSE, value |-> Wrap(v - amount)]}

\* value *= factor
MultiplyCommand_execute(factor, v) == Wrap(v * factor)
\* value /= factor: the set of outcomes; dividing by zero and MinInt / -1 are
\* undefined, the build either traps (SIGFPE) or yields what a non-trapping
\* divide instruction yields (0, respectively MinInt)
MultiplyCommand_undo(factor, v) ==
    IF factor = 0
    THEN {[fault |-> TRUE, value |-> v], [fault |-> FALSE, value |-> 0]}
    ELSE IF v = MinInt /\ factor = -1
    THEN {[fault |-> TRUE, value |-> v], [fault |-> FALSE, value |-> MinInt]}
    ELSE {[fault |-> FALSE, value |-> TruncDiv(v, factor)]}

\* virtual dispatch of Command::execute and Command::undo
Execute(cmd, v) ==
    IF cmd.type = "AddCommand" THEN AddCommand_execute(cmd.operand, v)
    ELSE MultiplyCommand_execute(cmd.operand, v)

UndoOutcomes(cmd, v) ==
    IF cmd.type = "AddCommand" THEN AddCommand_undo(cmd.operand, v)
    ELSE MultiplyCommand_undo(cmd.operand, v)

\* --------------------------------------------------------- CommandManager
\* executeCommand over a history capped at two entries: the oldest is evicted
executeCommand_capped(cmd) ==
    /\ ~fault
    /\ Len(undoStack) < MaxDepth
    /\ value' = Execute(cmd, value)
    /\ undoStack' = IF Len(undoStack) < 2 THEN Push(undoStack, cmd)
                    ELSE Push(Tail(undoStack), cmd)
    /\ redoStack' = ClearStack(redoStack)
    /\ out' = "Executed"
    /\ UNCHANGED fault

\* executeCommand that runs cmd->execute() before and after the push
executeCommand_twice(cmd) ==
    /\ ~fault
    /\ Len(undoStack) < MaxDepth
    /\ value' = Execute(cmd, Execute(cmd, value))
    /\ undoStack' = Push(undoStack, cmd)
    /\ redoStack' = ClearStack(redoStack)
    /\ out' = "Executed"
    /\ UNCHANGED fault

\* void executeCommand(unique_ptr<Command> cmd)
executeCommand(cmd) ==
    /\ ~fault
    /\ Len(undoStack) < MaxDepth
    /\ value' = Execute(cmd, value)
    /\ undoStack' = Push(undoStack, cmd)
    /\ redoStack' = ClearStack(redoStack)
    /\ out' = "Executed"
    /\ UNCHANGED fault

\* undo() that pushes a copy and leaves the command on undoStack as well
undo_keeps ==
    /\ ~fault
    /\ IF undoStack # <<>>
       THEN LET cmd == Top(undoStack) IN
            \E r \in UndoOutcomes(cmd, value) :
                /\ UNCHANGED undoStack
                /\ fault' = r.fault
                /\ value' = r.value
                /\ IF r.fault
                   THEN /\ out' = ""
                        /\ UNCHANGED redoStack
                   ELSE /\ out' = "Undone"
                        /\ redoStack' = Push(redoStack, cmd)
       ELSE /\ out' = "Nothing to undo"
            /\ UNCHANGED <<value, undoStack, redoStack, fault>>

\* undo() that lets the popped command go out of scope without the push
undo_drops ==
    /\ ~fault
    /\ IF undoStack # <<>>
       THEN LET cmd == Top(undoStack) IN
            \E r \in UndoOutcomes(cmd, value) :
                /\ undoStack' = Pop(undoStack)
                /\ fault' = r.fault
                /\ value' = r.value
                /\ out' = IF r.fault THEN "" ELSE "Undone"
                /\ UNCHANGED redoStack
       ELSE /\ out' = "Nothing to undo"
            /\ UNCHANGED <<value, undoStack, redoStack, fault>>

\* undo() without the emptiness check: top() of an empty stack kills the process
undo_unchecked ==
    /\ ~fault
    /\ IF undoStack # <<>>
       THEN LET cmd == Top(undoStack) IN
            \E r \in UndoOutcomes(cmd, value) :
                /\ undoStack' = Pop(undoStack)
                /\ fault' = r.fault
                /\ value' = r.value
                /\ IF r.fault
                   THEN /\ out' = ""
                        /\ UNCHANGED redoStack
                   ELSE /\ out' = "Undone"
                        /\ redoStack' = Push(redoStack, cmd)
       ELSE /\ out' = ""
            /\ fault' = TRUE
            /\ UNCHANGED <<value, undoStack, redoStack>>

\* void undo()
undo ==
    /\ ~fault
    /\ IF undoStack # <<>>
       THEN LET cmd == Top(undoStack) IN
            \E r \in UndoOutcomes(cmd, value) :
                /\ undoStack' = Pop(undoStack)
                /\ fault' = r.fault
                /\ value' = r.value
                /\ IF r.fault
                   THEN /\ out' = ""
                        /\ UNCHANGED redoStack
                   ELSE /\ out' = "Undone"
                        /\ redoStack' = Push(redoStack, cmd)
       ELSE /\ out' = "Nothing to undo"
            /\ UNCHANGED <<value, undoStack, redoStack, fault>>

\* redo() that moves the command back without cmd->execute()
redo_noexec ==
    /\ ~fault
    /\ IF redoStack # <<>>
       THEN LET cmd == Top(redoStack) IN
            /\ redoStack' = Pop(redoStack)
            /\ UNCHANGED value
            /\ undoStack' = Push(undoStack, cmd)
            /\ out' = "Executed"
       ELSE /\ out' = "Nothing to redo"
            /\ UNCHANGED <<value, undoStack, redoStack>>
    /\ UNCHANGED fault

\* redo() without the emptiness check: top() of an empty stack kills the process
redo_unchecked ==
    /\ ~fault
    /\ IF redoStack # <<>>
       THEN LET cmd == Top(redoStack) IN
            /\ redoStack' = Pop(redoStack)
            /\ value' = Execute(cmd, value)
            /\ undoStack' = Push(undoStack, cmd)
            /\ out' = "Executed"
            /\ UNCHANGED fault
       ELSE /\ out' = ""
            /\ fault' = TRUE
            /\ UNCHANGED <<value, undoStack, redoStack>>

\* redo() that re-applies the bottom entry of redoStack instead of the top one
redo_oldest ==
    /\ ~fault
    /\ IF redoStack # <<>>
       THEN LET cmd == Head(redoStack) IN
            /\ redoStack' = Tail(redoStack)
            /\ value' = Execute(cmd, value)
            /\ undoStack' = Push(undoStack, cmd)
            /\ out' = "Executed"
       ELSE /\ out' = "Nothing to redo"
            /\ UNCHANGED <<value, undoStack, redoStack>>
    /\ UNCHANGED fault

\* void redo()
redo ==
    /\ ~fault
    /\ IF redoStack # <<>>
       THEN LET cmd == Top(redoStack) IN
            /\ redoStack' = Pop(redoStack)
            /\ value' = Execute(cmd, value)
            /\ undoStack' = Push(undoStack, cmd)
            /\ out' = "Executed"
       ELSE /\ out' = "Nothing to redo"
            /\ UNCHANGED <<value, undoStack, redoStack>>
    /\ UNCHANGED fault

\* ------------------------------------------------- the calls main() makes
\* no run of calls is being followed
NoRun == [shape |-> "none", n |-> 0, m |-> 0, k |-> 0, base |-> 0, top |-> 0]

\* no call has been made yet
NoSnapshot == [value |-> 0, undoStack |-> <<>>, redoStack |-> <<>>]

\* int value = 10;
ScenarioStart == 10

Call(op, type, operand) == [op |-> op, type |-> type, operand |-> operand]

\* the calls of Example 6 in main(), continued as documented by one more
\* executeCommand and one more redo
Scenario == <<
    Call("exec", "AddCommand", 5),
    Call("exec", "MultiplyCommand", 2),
    Call("exec", "AddCommand", 10),
    Call("undo", "none", 0),
    Call("undo", "none", 0),
    Call("redo", "none", 0),
    Call("exec", "AddCommand", 1),
    Call("redo", "none", 0) >>

StepNext(s, call) ==
    IF s >= 0 /\ s < Len(Scenario) /\ Scenario[s + 1] = call THEN s + 1 ELSE -1

\* what main() sees of a call: which call it was, which one came before, the
\* command the call acted on, and the place it has in the scenario
Observe(call, cmd) ==
    /\ lastOp' = call.op
    /\ prevOp' = lastOp
    /\ lastCmd' = cmd
    /\ step' = StepNext(step, call)

\* int value = ...; CommandManager manager;
Init ==
    /\ value \in StartValues
    /\ undoStack = <<>>
    /\ redoStack = <<>>
    /\ fault = FALSE
    /\ out = ""
    /\ lastOp = "none"
    /\ prevOp = "none"
    /\ lastCmd = NoCmd
    /\ prev = 0
    /\ pc = "manager"
    /\ cleared = 0
    /\ run = NoRun
    /\ step = IF value = ScenarioStart THEN 0 ELSE -1
    /\ start = 0
    /\ exact = TRUE
    /\ atCall = NoSnapshot
    /\ freed = {}
    /\ label = ""
    /\ ElsewhereIdle

\* manager.executeCommand(make_unique<AddCommand>(value, amt));
ExecuteAdd ==
    \E amt \in Amounts :
        LET cmd == AddCommand(amt) IN
        /\ executeCommand(cmd)
        /\ Observe(Call("exec", cmd.type, cmd.operand), cmd)
        /\ cleared' = Len(redoStack) - Len(redoStack')
        /\ UNCHANGED <<prev, pc, run>>
        /\ UNCHANGED <<ownerVars, elsewhere>>

\* manager.executeCommand(make_unique<MultiplyCommand>(value, fac));
ExecuteMultiply ==
    \E fac \in Factors :
        LET cmd == MultiplyCommand(fac) IN
        /\ executeCommand(cmd)
        /\ Observe(Call("exec", cmd.type, cmd.operand), cmd)
        /\ cleared' = Len(redoStack) - Len(redoStack')
        /\ UNCHANGED <<prev, pc, run>>
        /\ UNCHANGED <<ownerVars, elsewhere>>

\* manager.undo();
Undo ==
    /\ undo
    /\ Observe(Call("undo", "none", 0),
               IF undoStack # <<>> THEN Top(undoStack) ELSE lastCmd)
    /\ UNCHANGED <<prev, pc, cleared, run>>
    /\ UNCHANGED <<ownerVars, elsewhere>>

\* manager.redo();
Redo ==
    /\ redo
    /\ Observe(Call("redo", "none", 0),
               IF redoStack # <<>> THEN Top(redoStack) ELSE lastCmd)
    /\ UNCHANGED <<prev, pc, cleared, run>>
    /\ UNCHANGED <<ownerVars, elsewhere>>

Next == ExecuteAdd \/ ExecuteMultiply \/ Undo \/ Redo

Spec == Init /\ [][Next]_vars

\* ------------------------------------- main() as n executes, undos, redos
\* execute^n undo^m redo^k: n executeCommand calls in a row, then m <= n
\* undo() calls in a row, then k <= m redo() calls in a row; base is the
\* target before the first of the n, top the target after the last of them

RunExecute(r, before, after) ==
    IF r.shape = "execs"
    THEN [r EXCEPT !.n = @ + 1, !.top = after]
    ELSE [shape |-> "execs", n |-> 1, m |-> 0, k |-> 0,
          base |-> before, top |-> after]

RunUndo(r) ==
    IF r.shape \in {"execs", "undos"} /\ r.m < r.n
    THEN [r EXCEPT !.shape = "undos", !.m = @ + 1]
    ELSE NoRun

RunRedo(r) ==
    IF r.shape \in {"undos", "redos"} /\ r.k < r.m
    THEN [r EXCEPT !.shape = "redos", !.k = @ + 1]
    ELSE NoRun


InitRun ==
    /\ value \in RunStartValues
    /\ undoStack = <<>>
    /\ redoStack = <<>>
    /\ fault = FALSE
    /\ out = ""
    /\ lastOp = "none"
    /\ prevOp = "none"
    /\ lastCmd = NoCmd
    /\ prev = 0
    /\ pc = "manager"
    /\ cleared = 0
    /\ run = NoRun
    /\ step = -1
    /\ start = 0
    /\ exact = TRUE
    /\ atCall = NoSnapshot
    /\ freed = {}
    /\ label = ""
    /\ ElsewhereIdle

\* manager.executeCommand(make_unique<AddCommand>(value, amt));
RunExecuteAdd ==
    /\ run.shape \in {"none", "execs"}
    /\ \E amt \in RunAmounts : executeCommand(AddCommand(amt))
    /\ run' = RunExecute(run, value, value')
    /\ UNCHANGED <<lastOp, prevOp, lastCmd, prev, pc, cleared, step>>
    /\ UNCHANGED <<ownerVars, elsewhere>>

\* manager.executeCommand(make_unique<MultiplyCommand>(value, fac));
RunExecuteMultiply ==
    /\ run.shape \in {"none", "execs"}
    /\ \E fac \in RunFactors : executeCommand(MultiplyCommand(fac))
    /\ run' = RunExecute(run, value, value')
    /\ UNCHANGED <<lastOp, prevOp, lastCmd, prev, pc, cleared, step>>
    /\ UNCHANGED <<ownerVars, elsewhere>>

\* manager.undo();
RunUndoCall ==
    /\ RunUndo(run) # NoRun
    /\ undo
    /\ run' = RunUndo(run)
    /\ UNCHANGED <<lastOp, prevOp, lastCmd, prev, pc, cleared, step>>
    /\ UNCHANGED <<ownerVars, elsewhere>>

\* manager.redo();
RunRedoCall ==
    /\ RunRedo(run) # NoRun
    /\ redo
    /\ run' = RunRedo(run)
    /\ UNCHANGED <<lastOp, prevOp, lastCmd, prev, pc, cleared, step>>
    /\ UNCHANGED <<ownerVars, elsewhere>>

NextRun == RunExecuteAdd \/ RunExecuteMultiply \/ RunUndoCall \/ RunRedoCall

SpecRun == InitRun /\ [][NextRun]_vars

\* ------------------------------------------- one command driven directly
\* AddCommand cmd(value, amt) or MultiplyCommand cmd(value, fac), no manager
InitCommand ==
    /\ value \in MinInt..MaxInt
    /\ undoStack = <<>>
    /\ redoStack = <<>>
    /\ fault = FALSE
    /\ out = ""
    /\ lastOp = "none"
    /\ prevOp = "none"
    /\ lastCmd \in {AddCommand(amt) : amt \in Operands}
                       \cup {MultiplyCommand(fac) : fac \in Operands}
    /\ prev = value
    /\ pc = "execute"
    /\ cleared = 0
    /\ run = NoRun
    /\ step = -1
    /\ start = 0
    /\ exact = TRUE
    /\ atCall = NoSnapshot
    /\ freed = {}
    /\ label = ""
    /\ ElsewhereIdle

\* cmd.execute();
CommandExecute ==
    /\ pc = "execute"
    /\ prev' = value
    /\ value' = Execute(lastCmd, value)
    /\ out' = "Executed"
    /\ pc' = "undo"
    /\ UNCHANGED <<undoStack, redoStack, fault, lastOp, prevOp, lastCmd,
                   cleared, run, step>>
    /\ UNCHANGED <<ownerVars, elsewhere>>

\* cmd.undo();
CommandUndo ==
    /\ pc = "undo"
    /\ \E r \in UndoOutcomes(lastCmd, value) :
           /\ value' = r.value
           /\ fault' = r.fault
           /\ out' = IF r.fault THEN "" ELSE "Undone"
    /\ pc' = "done"
    /\ UNCHANGED <<undoStack, redoStack, lastOp, prevOp, lastCmd, prev,
                   cleared, run, step>>
    /\ UNCHANGED <<ownerVars, elsewhere>>

NextCommand == CommandExecute \/ CommandUndo

SpecCommand == InitCommand /\ [][NextCommand]_vars

\* ------------------ main() keeping book of what each call found and did
Snapshot == [value |-> value, undoStack |-> undoStack, redoStack |-> redoStack]

\* value += amount, value *= factor computed without leaving the int range,
\* and the factor is one that /= can divide by
ExactExecute(cmd, v) ==
    IF cmd.type = "AddCommand"
    THEN v + cmd.operand \in MinInt..MaxInt
    ELSE cmd.operand # 0 /\ v * cmd.operand \in MinInt..MaxInt

\* value -= amount, value /= factor computed without undefined behaviour
ExactUndo(cmd, v) ==
    IF cmd.type = "AddCommand"
    THEN v - cmd.operand \in MinInt..MaxInt
    ELSE cmd.operand # 0 /\ ~(v = MinInt /\ cmd.operand = -1)

\* std::to_string(int)
RECURSIVE Digits(_)
Digits(n) ==
    IF n < 10
    THEN <<"0", "1", "2", "3", "4", "5", "6", "7", "8", "9">>[n + 1]
    ELSE Digits(n \div 10) \o Digits(n % 10)

to_string(n) == IF n < 0 THEN "-" \o Digits(0 - n) ELSE Digits(n)

\* return "Add " + to_string(amount);
AddCommand_describe(amount) == "Add " \o to_string(amount)

\* return "Multiply by " + to_string(factor);
MultiplyCommand_describe(factor) == "Multiply by " \o to_string(factor)

\* virtual dispatch of Command::describe
Describe(cmd) ==
    IF cmd.type = "AddCommand" THEN AddCommand_describe(cmd.operand)
    ELSE MultiplyCommand_describe(cmd.operand)

\* value += amount, value *= factor as the integers have it
Forward(cmd, v) ==
    IF cmd.type = "AddCommand" THEN v + cmd.operand ELSE v * cmd.operand

\* execute() of every command of a stack, bottom to top, starting from v
RECURSIVE ForwardAll(_, _)
ForwardAll(s, v) ==
    IF s = <<>> THEN v ELSE ForwardAll(Tail(s), Forward(Head(s), v))

\* a stack read from its top down to its bottom
Reverse(s) == [i \in 1..Len(s) |-> s[Len(s) + 1 - i]]

\* the commands the manager holds, oldest executed first, last undone first
\* among the undone ones
History(u, r) == u \o Reverse(r)

\* the book main() keeps of a call: which call, on which command, what the
\* call found, and whether its arithmetic stayed exact
Book(op, cmd, ex) ==
    /\ lastOp' = op
    /\ lastCmd' = cmd
    /\ atCall' = Snapshot
    /\ exact' = (exact /\ ex)
    /\ UNCHANGED <<prevOp, prev, pc, cleared, run, step, start, freed, label,
                   elsewhere>>

InitBook ==
    /\ value \in BookStartValues
    /\ undoStack = <<>>
    /\ redoStack = <<>>
    /\ fault = FALSE
    /\ out = ""
    /\ lastOp = "none"
    /\ prevOp = "none"
    /\ lastCmd = NoCmd
    /\ prev = 0
    /\ pc = "manager"
    /\ cleared = 0
    /\ run = NoRun
    /\ step = -1
    /\ start = value
    /\ exact = TRUE
    /\ atCall = NoSnapshot
    /\ freed = {}
    /\ label = ""
    /\ ElsewhereIdle

\* manager.executeCommand(make_unique<AddCommand>(value, amt));
BookExecuteAdd ==
    \E amt \in BookAmounts :
        LET cmd == AddCommand(amt) IN
        /\ executeCommand(cmd)
        /\ Book("exec", cmd, ExactExecute(cmd, value))

\* manager.executeCommand(make_unique<MultiplyCommand>(value, fac));
BookExecuteMultiply ==
    \E fac \in BookFactors :
        LET cmd == MultiplyCommand(fac) IN
        /\ executeCommand(cmd)
        /\ Book("exec", cmd, ExactExecute(cmd, value))

\* manager.undo();
BookUndo ==
    /\ undo
    /\ IF undoStack # <<>>
       THEN Book("undo", Top(undoStack), ExactUndo(Top(undoStack), value))
       ELSE Book("undo", lastCmd, TRUE)

\* manager.redo();
BookRedo ==
    /\ redo
    /\ IF redoStack # <<>>
       THEN Book("redo", Top(redoStack), ExactExecute(Top(redoStack), value))
       ELSE Book("redo", lastCmd, TRUE)

NextBook == BookExecuteAdd \/ BookExecuteMultiply \/ BookUndo \/ BookRedo

SpecBook == InitBook /\ [][NextBook]_vars

\* a describe() that also runs the command: return after value += amount
DescribeCall_executes ==
    /\ ~fault
    /\ \E i \in 1..Len(undoStack \o redoStack) :
           LET cmd == (undoStack \o redoStack)[i] IN
           /\ label' = Describe(cmd)
           /\ lastCmd' = cmd
           /\ value' = Execute(cmd, value)
    /\ UNCHANGED <<undoStack, redoStack, fault, out, lastOp, prevOp, prev, pc,
                   cleared, run, step, start, exact, atCall, freed,
                   elsewhere>>

\* cmd->describe() on a command the manager holds
DescribeCall ==
    /\ ~fault
    /\ \E i \in 1..Len(undoStack \o redoStack) :
           LET cmd == (undoStack \o redoStack)[i] IN
           /\ label' = Describe(cmd)
           /\ lastCmd' = cmd
    /\ UNCHANGED <<value, undoStack, redoStack, fault, out, lastOp, prevOp,
                   prev, pc, cleared, run, step, start, exact, atCall, freed,
                   elsewhere>>

NextDescribe ==
    RunExecuteAdd \/ RunExecuteMultiply \/ RunUndoCall \/ RunRedoCall
        \/ DescribeCall

SpecDescribe == InitRun /\ [][NextDescribe]_vars

\* ------------- main() keeping book of the addresses of its commands
Addrs(s) == {s[i].addr : i \in 1..Len(s)}

\* the commands the manager owns, by address
Live == Addrs(undoStack) \cup Addrs(redoStack)

\* make_unique: the new command lives at the least address no live command has
NewAddr == CHOOSE a \in 1..(MaxDepth + 1) :
               a \notin Live /\ \A b \in 1..(a - 1) : b \in Live

Owned(cmd) == cmd @@ [addr |-> NewAddr]

\* the addresses the call released: those of the commands the manager owned
\* or was handed, less those it owns afterwards; a killed process runs no
\* destructor
Released(handed) ==
    IF fault' THEN {}
    ELSE (Live \cup handed) \ (Addrs(undoStack') \cup Addrs(redoStack'))

InitOwner ==
    /\ value \in OwnerStartValues
    /\ undoStack = <<>>
    /\ redoStack = <<>>
    /\ fault = FALSE
    /\ out = ""
    /\ lastOp = "none"
    /\ prevOp = "none"
    /\ lastCmd = NoCmd
    /\ prev = 0
    /\ pc = "manager"
    /\ cleared = 0
    /\ run = NoRun
    /\ step = -1
    /\ start = 0
    /\ exact = TRUE
    /\ atCall = NoSnapshot
    /\ freed = {}
    /\ label = ""
    /\ ElsewhereIdle

\* manager.executeCommand(make_unique<AddCommand>(value, amt));
OwnerExecuteAdd ==
    \E amt \in OwnerAmounts :
        LET cmd == Owned(AddCommand(amt)) IN
        /\ executeCommand(cmd)
        /\ lastOp' = "exec"
        /\ freed' = Released({cmd.addr})
        /\ UNCHANGED <<prevOp, lastCmd, prev, pc, cleared, run, step, start,
                       exact, atCall, label, elsewhere>>

\* manager.executeCommand(make_unique<MultiplyCommand>(value, fac));
OwnerExecuteMultiply ==
    \E fac \in OwnerFactors :
        LET cmd == Owned(MultiplyCommand(fac)) IN
        /\ executeCommand(cmd)
        /\ lastOp' = "exec"
        /\ freed' = Released({cmd.addr})
        /\ UNCHANGED <<prevOp, lastCmd, prev, pc, cleared, run, step, start,
                       exact, atCall, label, elsewhere>>

\* manager.undo();
OwnerUndo ==
    /\ undo
    /\ lastOp' = "undo"
    /\ freed' = Released({})
    /\ UNCHANGED <<prevOp, lastCmd, prev, pc, cleared, run, step, start,
                   exact, atCall, label, elsewhere>>

\* manager.redo();
OwnerRedo ==
    /\ redo
    /\ lastOp' = "redo"
    /\ freed' = Released({})
    /\ UNCHANGED <<prevOp, lastCmd, prev, pc, cleared, run, step, start,
                   exact, atCall, label, elsewhere>>

NextOwner == OwnerExecuteAdd \/ OwnerExecuteMultiply \/ OwnerUndo \/ OwnerRedo

SpecOwner == InitOwner /\ [][NextOwner]_vars

\* --------------------------------------- the manager in a run of another program
ManagerIdle ==
    /\ value = 0
    /\ undoStack = <<>>
    /\ redoStack = <<>>
    /\ fault = FALSE
    /\ out = ""
    /\ lastOp = "none"
    /\ prevOp = "none"
    /\ lastCmd = NoCmd
    /\ prev = 0
    /\ pc = "manager"
    /\ cleared = 0
    /\ run = NoRun
    /\ step = -1
    /\ start = 0
    /\ exact = TRUE
    /\ atCall = NoSnapshot
    /\ freed = {}
    /\ label = ""

\* ------------------------------------------- TextEditor (stack_examples.cpp)
\* type() that keeps the redo stack
TextEditor_type_keeps(text) ==
    /\ Len(editorUndoStack) + Len(editorRedoStack) < MaxEdits
    /\ editorUndoStack' = Push(editorUndoStack, currentText)
    /\ currentText' = currentText \o text
    /\ UNCHANGED editorRedoStack
    /\ editorOut' = ""

\* void type(const string &text)
TextEditor_type(text) ==
    /\ Len(editorUndoStack) < MaxEdits
    /\ editorUndoStack' = Push(editorUndoStack, currentText)
    /\ currentText' = currentText \o text
    /\ editorRedoStack' = ClearStack(editorRedoStack)
    /\ editorOut' = ""

\* undo() that pops before it reads the top
TextEditor_undo_late ==
    IF editorUndoStack # <<>>
    THEN /\ editorRedoStack' = Push(editorRedoStack, currentText)
         /\ editorUndoStack' = Pop(editorUndoStack)
         /\ currentText' = IF Pop(editorUndoStack) # <<>>
                           THEN Top(Pop(editorUndoStack)) ELSE currentText
         /\ editorOut' = ""
    ELSE /\ editorOut' = "Nothing to undo"
         /\ UNCHANGED <<currentText, editorUndoStack, editorRedoStack>>

\* void undo()
TextEditor_undo ==
    IF editorUndoStack # <<>>
    THEN /\ editorRedoStack' = Push(editorRedoStack, currentText)
         /\ currentText' = Top(editorUndoStack)
         /\ editorUndoStack' = Pop(editorUndoStack)
         /\ editorOut' = ""
    ELSE /\ editorOut' = "Nothing to undo"
         /\ UNCHANGED <<currentText, editorUndoStack, editorRedoStack>>

\* void redo()
TextEditor_redo ==
    IF editorRedoStack # <<>>
    THEN /\ editorUndoStack' = Push(editorUndoStack, currentText)
         /\ currentText' = Top(editorRedoStack)
         /\ editorRedoStack' = Pop(editorRedoStack)
         /\ editorOut' = ""
    ELSE /\ editorOut' = "Nothing to redo"
         /\ UNCHANGED <<currentText, editorUndoStack, editorRedoStack>>

\* the texts of a sequence joined, first to last
RECURSIVE Joined(_)
Joined(s) == IF s = <<>> THEN "" ELSE Head(s) \o Joined(Tail(s))

\* TextEditor editor;
InitEditor ==
    /\ EditorIdle
    /\ ManagerIdle /\ BracketIdle /\ BufferIdle /\ ArrayIdle /\ CacheIdle

\* editor.type(text);
EditorType ==
    /\ \E text \in Texts :
           /\ TextEditor_type(text)
           /\ typed' = Append(typed, text)
    /\ undone' = <<>>
    /\ editorOp' = <<editorOp[2], "type">>
    /\ UNCHANGED <<managerVars, bracketVars, bufferVars, arrayVars, cacheVars>>

\* editor.undo();
EditorUndo ==
    /\ TextEditor_undo
    /\ IF typed # <<>>
       THEN /\ typed' = Pop(typed)
            /\ undone' = Push(undone, Top(typed))
       ELSE UNCHANGED <<typed, undone>>
    /\ editorOp' = <<editorOp[2], "undo">>
    /\ UNCHANGED <<managerVars, bracketVars, bufferVars, arrayVars, cacheVars>>

\* editor.redo();
EditorRedo ==
    /\ TextEditor_redo
    /\ IF undone # <<>>
       THEN /\ undone' = Pop(undone)
            /\ typed' = Push(typed, Top(undone))
       ELSE UNCHANGED <<typed, undone>>
    /\ editorOp' = <<editorOp[2], "redo">>
    /\ UNCHANGED <<managerVars, bracketVars, bufferVars, arrayVars, cacheVars>>

NextEditor == EditorType \/ EditorUndo \/ EditorRedo

SpecEditor == InitEditor /\ [][NextEditor]_vars

\* ------------------------------------ CircularBuffer (pointer_examples.cpp)
\* write() without the test for a full buffer
CircularBuffer_write_over(v) ==
    /\ buffer' = [buffer EXCEPT ![writePtr + 1] = v]
    /\ writePtr' = IF writePtr + 1 >= bufferCapacity THEN 0 ELSE writePtr + 1
    /\ count' = count + 1
    /\ ret' = TRUE
    /\ UNCHANGED <<bufferCapacity, readPtr, slot>>

\* write() without the wrap of writePtr at buffer + capacity
CircularBuffer_write_nowrap(v) ==
    IF count = bufferCapacity
    THEN /\ ret' = FALSE
         /\ UNCHANGED <<buffer, bufferCapacity, writePtr, readPtr, count, slot>>
    ELSE /\ buffer' = [buffer EXCEPT ![(writePtr % bufferCapacity) + 1] = v]
         /\ writePtr' = writePtr + 1
         /\ count' = count + 1
         /\ ret' = TRUE
         /\ UNCHANGED <<bufferCapacity, readPtr, slot>>

\* bool write(int value)
CircularBuffer_write(v) ==
    IF count = bufferCapacity
    THEN /\ ret' = FALSE
         /\ UNCHANGED <<buffer, bufferCapacity, writePtr, readPtr, count, slot>>
    ELSE /\ buffer' = [buffer EXCEPT ![writePtr + 1] = v]
         /\ writePtr' = IF writePtr + 1 = bufferCapacity THEN 0
                        ELSE writePtr + 1
         /\ count' = count + 1
         /\ ret' = TRUE
         /\ UNCHANGED <<bufferCapacity, readPtr, slot>>

\* read() that leaves readPtr where it is
CircularBuffer_read_stuck ==
    IF count = 0
    THEN /\ ret' = FALSE
         /\ UNCHANGED <<buffer, bufferCapacity, writePtr, readPtr, count, slot>>
    ELSE /\ slot' = buffer[readPtr + 1]
         /\ count' = count - 1
         /\ ret' = TRUE
         /\ UNCHANGED <<buffer, bufferCapacity, writePtr, readPtr>>

\* bool read(int* value), called with the address of the caller's slot
CircularBuffer_read ==
    IF count = 0
    THEN /\ ret' = FALSE
         /\ UNCHANGED <<buffer, bufferCapacity, writePtr, readPtr, count, slot>>
    ELSE /\ slot' = buffer[readPtr + 1]
         /\ readPtr' = IF readPtr + 1 = bufferCapacity THEN 0 ELSE readPtr + 1
         /\ count' = count - 1
         /\ ret' = TRUE
         /\ UNCHANGED <<buffer, bufferCapacity, writePtr>>

\* CircularBuffer buffer(cap); int value;  the cells of new int[cap] and the
\* caller's int hold whatever was there
InitBuffer ==
    /\ bufferCapacity \in 0..MaxCap
    /\ buffer \in [1..bufferCapacity -> Indeterminate]
    /\ writePtr = 0
    /\ readPtr = 0
    /\ count = 0
    /\ ret = "none"
    /\ slot \in Indeterminate
    /\ bufferOp = "none"
    /\ pending = <<>>
    /\ written = 0
    /\ ManagerIdle /\ EditorIdle /\ BracketIdle /\ ArrayIdle /\ CacheIdle

\* buffer.write(v)
BufferWrite ==
    /\ written < MaxWrites
    /\ \E v \in BufferValues :
           /\ CircularBuffer_write(v)
           /\ pending' = IF ret' = TRUE THEN Append(pending, v) ELSE pending
    /\ written' = IF ret' = TRUE THEN written + 1 ELSE written
    /\ bufferOp' = "write"
    /\ UNCHANGED <<managerVars, editorVars, bracketVars, arrayVars, cacheVars>>

\* buffer.read(&value)
BufferRead ==
    /\ CircularBuffer_read
    /\ pending' = IF ret' = TRUE /\ pending # <<>> THEN Tail(pending)
                  ELSE pending
    /\ bufferOp' = "read"
    /\ UNCHANGED written
    /\ UNCHANGED <<managerVars, editorVars, bracketVars, arrayVars, cacheVars>>

NextBuffer == BufferWrite \/ BufferRead

SpecBuffer == InitBuffer /\ [][NextBuffer]_vars

\* -------------------------------------- DynamicArray (pointer_examples.cpp)
\* push() whose resize does not copy the old cells
DynamicArray_push_nocopy(v) ==
    /\ size < MaxSize
    /\ IF size = arrayCapacity
       THEN \E newData \in [1..Wrap(arrayCapacity * 2) -> Indeterminate] :
                /\ arrayCapacity' = Wrap(arrayCapacity * 2)
                /\ data' = [newData EXCEPT ![size + 1] = v]
       ELSE /\ data' = [data EXCEPT ![size + 1] = v]
            /\ UNCHANGED arrayCapacity
    /\ size' = Wrap(size + 1)

\* void push(int value); the cells of new int[capacity] hold whatever was
\* there until they are assigned
DynamicArray_push(v) ==
    /\ size < MaxSize
    /\ IF size = arrayCapacity
       THEN \E newData \in [1..Wrap(arrayCapacity * 2) -> Indeterminate] :
                /\ arrayCapacity' = Wrap(arrayCapacity * 2)
                /\ data' = [i \in 1..Wrap(arrayCapacity * 2) |->
                               IF i <= size THEN data[i]
                               ELSE IF i = size + 1 THEN v
                               ELSE newData[i]]
       ELSE /\ data' = [data EXCEPT ![size + 1] = v]
            /\ UNCHANGED arrayCapacity
    /\ size' = Wrap(size + 1)

\* int& operator[](int index), read
DynamicArray_at(index) == data[index + 1]

\* DynamicArray dynArr;
InitArray ==
    /\ arrayCapacity = 2
    /\ size = 0
    /\ data \in [1..2 -> Indeterminate]
    /\ pushed = <<>>
    /\ element = 0
    /\ ManagerIdle /\ EditorIdle /\ BracketIdle /\ BufferIdle /\ CacheIdle

\* dynArr.push(v);
ArrayPush ==
    /\ \E v \in ArrayValues :
           /\ DynamicArray_push(v)
           /\ pushed' = Append(pushed, v)
    /\ UNCHANGED element
    /\ UNCHANGED <<managerVars, editorVars, bracketVars, bufferVars, cacheVars>>

\* for (int i = 0; i < dynArr.getSize(); ++i) cout << dynArr[i]
ArrayRead ==
    /\ \E i \in 0..(size - 1) : element' = DynamicArray_at(i)
    /\ UNCHANGED <<data, size, arrayCapacity, pushed>>
    /\ UNCHANGED <<managerVars, editorVars, bracketVars, bufferVars, cacheVars>>

NextArray == ArrayPush \/ ArrayRead

SpecArray == InitArray /\ [][NextArray]_vars

\* ---------------------------------------- Cache (smart_pointer_examples.cpp)
\* an object is alive while a shared_ptr of main() owns it: the variable it
\* was made into, or the one that holds what get() returned
Alive(obj) == obj # NoObject /\ (obj \in owned \/ obj = got)

\* weak_ptr::expired of the entry of key k
Expired(k) == ~Alive(cache[k])

\* get() that leaves an expired entry in the map
Cache_get_keeps(key) ==
    /\ IF key \in DOMAIN cache /\ ~Expired(key)
       THEN got' = cache[key]
       ELSE got' = NoObject
    /\ UNCHANGED cache

\* shared_ptr<Value> get(const Key& key); main() keeps what it returns
Cache_get(key) ==
    IF key \in DOMAIN cache
    THEN IF ~Expired(key)
         THEN /\ got' = cache[key]
              /\ UNCHANGED cache
         ELSE /\ cache' = [k \in DOMAIN cache \ {key} |-> cache[k]]
              /\ got' = NoObject
    ELSE /\ got' = NoObject
         /\ UNCHANGED cache

\* void put(const Key& key, shared_ptr<Value> value)
Cache_put(key, obj) ==
    cache' = [k \in DOMAIN cache \cup {key} |->
                 IF k = key THEN obj ELSE cache[k]]

\* size_t size() const
Cache_size == Cardinality({k \in DOMAIN cache : ~Expired(k)})

\* void cleanup()
Cache_cleanup ==
    cache' = [k \in {j \in DOMAIN cache : ~Expired(j)} |-> cache[k]]

\* Cache<string, string> cache;
InitCache ==
    /\ CacheIdle
    /\ ManagerIdle /\ EditorIdle /\ BracketIdle /\ BufferIdle /\ ArrayIdle

\* auto data = make_shared<string>(...);
CacheMakeShared ==
    /\ made < MaxObjects
    /\ made' = made + 1
    /\ owned' = owned \cup {made + 1}
    /\ cacheOp' = <<"make", "">>
    /\ UNCHANGED <<cache, got, counted, stored>>
    /\ UNCHANGED <<managerVars, editorVars, bracketVars, bufferVars, arrayVars>>

\* the scope of a data variable ends
CacheOwnerGone ==
    /\ \E obj \in owned : owned' = owned \ {obj}
    /\ cacheOp' = <<"release", "">>
    /\ UNCHANGED <<cache, made, got, counted, stored>>
    /\ UNCHANGED <<managerVars, editorVars, bracketVars, bufferVars, arrayVars>>

\* the scope of the variable that holds what get() returned ends
CacheResultGone ==
    /\ got # NoObject
    /\ got' = NoObject
    /\ cacheOp' = <<"release", "">>
    /\ UNCHANGED <<cache, owned, made, counted, stored>>
    /\ UNCHANGED <<managerVars, editorVars, bracketVars, bufferVars, arrayVars>>

\* cache.put(key, data);  data is a shared_ptr of main() or a null one
CachePut ==
    /\ \E key \in Keys, obj \in {o \in 1..made : Alive(o)} \cup {NoObject} :
           /\ Cache_put(key, obj)
           /\ stored' = [k \in DOMAIN stored \cup {key} |->
                            IF k = key THEN obj ELSE stored[k]]
           /\ cacheOp' = <<"put", key>>
    /\ UNCHANGED <<owned, made, got, counted>>
    /\ UNCHANGED <<managerVars, editorVars, bracketVars, bufferVars, arrayVars>>

\* auto retrieved = cache.get(key);
CacheGet ==
    /\ \E key \in Keys :
           /\ Cache_get(key)
           /\ cacheOp' = <<"get", key>>
    /\ UNCHANGED <<owned, made, counted, stored>>
    /\ UNCHANGED <<managerVars, editorVars, bracketVars, bufferVars, arrayVars>>

\* cout << cache.size()
CacheSize ==
    /\ counted' = Cache_size
    /\ cacheOp' = <<"size", "">>
    /\ UNCHANGED <<cache, owned, made, got, stored>>
    /\ UNCHANGED <<managerVars, editorVars, bracketVars, bufferVars, arrayVars>>

\* cache.cleanup();
CacheCleanup ==
    /\ Cache_cleanup
    /\ cacheOp' = <<"cleanup", "">>
    /\ UNCHANGED <<owned, made, got, counted, stored>>
    /\ UNCHANGED <<managerVars, editorVars, bracketVars, bufferVars, arrayVars>>

NextCache ==
    CacheMakeShared \/ CacheOwnerGone \/ CacheResultGone \/ CachePut
        \/ CacheGet \/ CacheSize \/ CacheCleanup

SpecCache == InitCache /\ [][NextCache]_vars

\* ------------------------------------------- isBalanced (stack_examples.cpp)
Openers == {"(", "{", "["}
Closers == {")", "}", "]"}

\* the opener the closing bracket ch has to meet on top of the stack
OpenerOf(ch) == IF ch = ")" THEN "(" ELSE IF ch = "}" THEN "{" ELSE "["

\* isBalanced without the final test of the stack: returns true at the end
RECURSIVE isBalanced_noend(_, _, _)
isBalanced_noend(expr, i, s) ==
    IF i > Len(expr) THEN [balanced |-> TRUE, at |-> 0]
    ELSE IF expr[i] \in Openers
         THEN isBalanced_noend(expr, i + 1, Push(s, expr[i]))
    ELSE IF expr[i] \in Closers
         THEN IF s = <<>> THEN [balanced |-> FALSE, at |-> i]
              ELSE IF Top(s) # OpenerOf(expr[i])
                   THEN [balanced |-> FALSE, at |-> i]
                   ELSE isBalanced_noend(expr, i + 1, Pop(s))
    ELSE isBalanced_noend(expr, i + 1, s)

\* bool isBalanced(const string &expression): the loop from character i on
\* with stack s; at is the character it returned at, 0 for the final return
RECURSIVE isBalanced(_, _, _)
isBalanced(expr, i, s) ==
    IF i > Len(expr) THEN [balanced |-> (s = <<>>), at |-> 0]
    ELSE IF expr[i] \in Openers
         THEN isBalanced(expr, i + 1, Push(s, expr[i]))
    ELSE IF expr[i] \in Closers
         THEN IF s = <<>> THEN [balanced |-> FALSE, at |-> i]
              ELSE IF Top(s) # OpenerOf(expr[i])
                   THEN [balanced |-> FALSE, at |-> i]
                   ELSE isBalanced(expr, i + 1, Pop(s))
    ELSE isBalanced(expr, i + 1, s)

\* the brackets of an expression, every other character left out
Brackets(expr) == SelectSeq(expr, LAMBDA ch : ch \in Openers \cup Closers)

\* a bracket sequence with its adjacent pairs () {} [] taken out until none
\* is left to take out
RECURSIVE Reduced(_)
Reduced(b) ==
    IF \E i \in 1..(Len(b) - 1) :
           b[i] \in Openers /\ b[i + 1] \in Closers /\ b[i] = OpenerOf(b[i + 1])
    THEN LET i == CHOOSE j \in 1..(Len(b) - 1) :
                      /\ b[j] \in Openers /\ b[j + 1] \in Closers
                      /\ b[j] = OpenerOf(b[j + 1])
         IN Reduced(SubSeq(b, 1, i - 1) \o SubSeq(b, i + 2, Len(b)))
    ELSE b

\* string expr = ...;
InitBracket ==
    /\ expression \in UNION {[1..n -> Characters] : n \in 0..MaxLen}
    /\ verdict = NoVerdict
    /\ ManagerIdle /\ EditorIdle /\ BufferIdle /\ ArrayIdle /\ CacheIdle

\* isBalanced(expr)
BracketCheck ==
    /\ verdict = NoVerdict
    /\ verdict' = isBalanced(expression, 1, <<>>)
    /\ UNCHANGED expression
    /\ UNCHANGED <<managerVars, editorVars, bufferVars, arrayVars, cacheVars>>

NextBracket == BracketCheck

SpecBracket == InitBracket /\ [][NextBracket]_vars

\* ------------------------------------------------------------- properties

\* C1: after n executeCommand calls in a row, n undo() calls in a row leave
\* the target equal to the value it had before the first of the n calls.
UndoAllRestoresStart ==
    (run.shape = "undos" /\ run.m = run.n) => (~fault /\ value = run.base)

\* C2: after n executeCommand calls, m <= n undo() calls followed by m
\* redo() calls leave the target equal to its value after the n-th call.
UndosThenRedosRestoreTop ==
    (run.shape = "redos" /\ run.k = run.m) => (~fault /\ value = run.top)

\* C3: after any executeCommand the redo stack is empty, and a redo() made
\* directly after it changes neither the target nor either stack.
RedoAfterExecuteIsNoOp ==
    /\ [](lastOp = "exec" => redoStack = <<>>)
    /\ [][(lastOp = "exec" /\ lastOp' = "redo")
            => /\ UNCHANGED <<value, undoStack, redoStack, fault>>
               /\ out' = "Nothing to redo"]_vars

\* C3 witness: a redo() directly after an executeCommand that discarded redo
\* history reported that there was nothing to redo.
RedoAfterExecuteSeen ==
    /\ lastOp = "redo" /\ prevOp = "exec"
    /\ cleared > 0
    /\ out = "Nothing to redo"

\* C4: with a non-empty undo stack, undo() takes the most recently executed
\* or redone command off the top of undoStack, applies its undo() once to the
\* target and puts it on top of redoStack; every other entry stays in place.
UndoActsOnLatest ==
    /\ [](out = "Executed" => (undoStack # <<>> /\ Top(undoStack) = lastCmd))
    /\ [][(lastOp' = "undo" /\ undoStack # <<>>)
            => /\ undoStack' = Pop(undoStack)
               /\ redoStack' = Push(redoStack, Top(undoStack))
               /\ \E r \in UndoOutcomes(Top(undoStack), value) :
                      ~r.fault /\ value' = r.value
               /\ ~fault']_vars

\* C5: with a non-empty redo stack, redo() takes the most recently undone
\* command off the top of redoStack, applies its execute() once to the target
\* and puts it on top of undoStack; every other entry stays in place.
RedoActsOnLatest ==
    /\ [](out = "Undone" => (redoStack # <<>> /\ Top(redoStack) = lastCmd))
    /\ [][(lastOp' = "redo" /\ redoStack # <<>>)
            => /\ redoStack' = Pop(redoStack)
               /\ undoStack' = Push(undoStack, Top(redoStack))
               /\ value' = Execute(Top(redoStack), value)
               /\ ~fault']_vars

\* C5 witness: a redo() has just re-applied a command while other commands
\* stayed below it on undoStack and behind it on redoStack.
RedoActedSeen ==
    /\ lastOp = "redo" /\ out = "Executed"
    /\ Len(undoStack) >= 2 /\ redoStack # <<>>
    /\ Top(undoStack) = lastCmd

\* C6: with an empty undo stack undo() reports "Nothing to undo" and leaves
\* the target and both stacks as they were, without a fault.
UndoOnEmptyIsNoOp ==
    [][(lastOp' = "undo" /\ undoStack = <<>>)
         => /\ UNCHANGED <<value, undoStack, redoStack, fault>>
            /\ out' = "Nothing to undo"]_vars

\* C6 witness: undo() was the first call made on a fresh CommandManager.
UndoOnFreshSeen ==
    /\ lastOp = "undo" /\ prevOp = "none"
    /\ out = "Nothing to undo"
    /\ undoStack = <<>> /\ redoStack = <<>>

\* C7: with an empty redo stack redo() reports "Nothing to redo" and leaves
\* the target and both stacks as they were, without a fault.
RedoOnEmptyIsNoOp ==
    [][(lastOp' = "redo" /\ redoStack = <<>>)
         => /\ UNCHANGED <<value, undoStack, redoStack, fault>>
            /\ out' = "Nothing to redo"]_vars

\* C7 witness: a redo() that followed a redo() found redoStack empty while
\* undoStack held commands.
RedoOnEmptySeen ==
    /\ lastOp = "redo" /\ prevOp = "redo"
    /\ out = "Nothing to redo"
    /\ redoStack = <<>> /\ undoStack # <<>>

\* C8: for one command alone, any target and any operand, execute() followed
\* by undo() restores the target to its value before execute().
ExecuteUndoRestores ==
    pc = "done" => (~fault /\ value = prev)

\* C9: no CommandManager operation raises a fault in any reachable state.
NoFault == fault = FALSE

\* C10: the documented scenario passes through the documented values, and
\* its last redo() is a no-op.
ScenarioValues ==
    /\ \A p \in {<<1, 15>>, <<2, 30>>, <<3, 40>>, <<5, 15>>, <<6, 30>>,
                 <<7, 31>>, <<8, 31>>} :
           step = p[1] => (value = p[2] /\ ~fault)
    /\ step \in {7, 8} =>
           /\ undoStack = <<AddCommand(5), MultiplyCommand(2), AddCommand(1)>>
           /\ redoStack = <<>>
    /\ step = 8 => out = "Nothing to redo"

\* C10 witness: the whole scenario has been played.
ScenarioPlayed == step = Len(Scenario) /\ value = 31

\* C11: executeCommand(cmd) applies cmd's forward mutation to the target
\* once (value + amount, value * factor) and makes cmd the new top of
\* undoStack, the earlier entries staying below it in the same order.
ExecuteAppliesOnceAndPushes ==
    [][lastOp' = "exec"
         => /\ value' = IF lastCmd'.type = "AddCommand"
                        THEN Wrap(value + lastCmd'.operand)
                        ELSE Wrap(value * lastCmd'.operand)
            /\ Len(undoStack') = Len(undoStack) + 1
            /\ undoStack'[Len(undoStack')] = lastCmd'
            /\ \A i \in 1..Len(undoStack) : undoStack'[i] = undoStack[i]
            /\ ~fault']_vars

\* C11 witness: an executeCommand has put its command on top of two earlier
\* entries of undoStack.
ExecutePushedSeen ==
    /\ lastOp = "exec"
    /\ Len(undoStack) = 3
    /\ Top(undoStack) = lastCmd
    /\ value # 0

\* C12: describe() has no side effects: the target, both stacks (and so every
\* command's operand) are the same after it as before, it raises no fault, and
\* it returns the label of the command's type and operand.
DescribeChangesNothing ==
    [][(label' # label \/ lastCmd' # lastCmd)
         => /\ UNCHANGED <<value, undoStack, redoStack, fault, out, run>>
            /\ label' = (IF lastCmd'.type = "AddCommand"
                         THEN "Add " ELSE "Multiply by ")
                        \o to_string(lastCmd'.operand)]_vars

\* C12 witness: describe() has returned the label of a command that sits on
\* redoStack while undoStack holds another.
DescribeSeen ==
    /\ label = "Multiply by -1"
    /\ redoStack # <<>> /\ Top(redoStack) = lastCmd
    /\ undoStack # <<>>
    /\ run.shape = "undos"

\* C13: each time MultiplyCommand::undo divides, the factor is one that can be
\* divided by and the target is a multiple of it, so value /= factor leaves no
\* remainder, and the call returns.
UndoDividesExactly ==
    [][(lastOp' = "undo" /\ undoStack # <<>>
            /\ Top(undoStack).type = "MultiplyCommand")
         => /\ Top(undoStack).operand # 0
            /\ TruncDiv(value, Top(undoStack).operand) * Top(undoStack).operand
                   = value
            /\ ~fault']_vars

\* C14: every command the manager owns sits at exactly one place of exactly
\* one stack: the addresses on undoStack and redoStack are pairwise distinct.
OneOwnerEach ==
    Cardinality(Live) = Len(undoStack) + Len(redoStack)

\* C14 witness: both stacks hold commands, three in all, after an undo().
OneOwnerEachSeen ==
    /\ lastOp = "undo"
    /\ undoStack # <<>> /\ redoStack # <<>>
    /\ Len(undoStack) + Len(redoStack) = MaxDepth
    /\ Cardinality(Live) = MaxDepth

\* C15: undo() keeps every entry of redoStack in place and at most adds one
\* on top, redo() takes exactly the top of redoStack and puts it on undoStack,
\* and both leave |undoStack| + |redoStack| as it was.
OnlyExecuteDiscardsRedo ==
    [][/\ (lastOp' = "undo"
             => (/\ Len(redoStack') >= Len(redoStack)
                 /\ SubSeq(redoStack', 1, Len(redoStack)) = redoStack
                 /\ Len(undoStack') + Len(redoStack')
                        = Len(undoStack) + Len(redoStack)))
       /\ (lastOp' = "redo"
             => (/\ (redoStack # <<>>
                       => (/\ redoStack' = Pop(redoStack)
                           /\ undoStack' = Push(undoStack, Top(redoStack))))
                 /\ Len(undoStack') + Len(redoStack')
                        = Len(undoStack) + Len(redoStack)))]_vars

\* C16 as stated: no call of the manager destroys a command.
NoCommandDestroyed ==
    freed = {}

\* C16: undo() and redo() destroy no command; executeCommand destroys exactly
\* the commands that were on redoStack when it was called, and never the
\* command it was handed.
OnlyExecuteDestroys ==
    [][/\ (lastOp' \in {"undo", "redo"} => freed' = {})
       /\ (lastOp' = "exec" => freed' = Addrs(redoStack))]_vars

\* C16 witness: an executeCommand has destroyed two undone commands.
ExecuteDestroyedSeen ==
    /\ lastOp = "exec"
    /\ Cardinality(freed) = 2
    /\ redoStack = <<>>
    /\ Len(undoStack) = 2

\* C17: a run of k executeCommand calls leaves k commands on undoStack, and
\* no call removes the oldest entry of undoStack while another entry stays.
HistoryNeverCapped ==
    /\ [](run.shape = "execs" => Len(undoStack) = run.n)
    /\ [][(undoStack # <<>> /\ undoStack' # <<>>)
            => undoStack'[1] = undoStack[1]]_vars

\* C17 witness: a run of MaxDepth executeCommand calls has been made.
HistoryGrownSeen ==
    /\ run.shape = "execs"
    /\ run.n = MaxDepth
    /\ Len(undoStack) = MaxDepth

\* C18: as long as no mutation left the int range and no factor was zero,
\* the target is the start value with execute() of the commands on undoStack
\* applied bottom to top; redoStack contributes nothing.
ValueIsUndoStackApplied ==
    (exact /\ ~fault) => value = ForwardAll(undoStack, start)

\* C18 witness: an AddCommand and a MultiplyCommand are applied, another
\* command is undone, and all arithmetic was exact.
ValueAppliedSeen ==
    /\ exact /\ ~fault
    /\ Len(undoStack) = 2
    /\ undoStack[1].type = "MultiplyCommand"
    /\ undoStack[2].type = "AddCommand"
    /\ redoStack # <<>>
    /\ value # start

\* C19: undo() and redo() leave the combined history (undoStack bottom to
\* top, then redoStack top to bottom) as it was.
HistoryKeptByUndoRedo ==
    [][lastOp' \in {"undo", "redo"}
         => History(undoStack', redoStack') = History(undoStack, redoStack)]_vars

\* C20: redo() on a non-empty redoStack followed at once by undo() gives back
\* the value and both stacks redo() found, and undo() on a non-empty undoStack
\* followed at once by redo() gives back what undo() found.
RedoUndoRoundTrip ==
    [][/\ ((lastOp = "redo" /\ atCall.redoStack # <<>> /\ lastOp' = "undo")
             => (/\ ~fault'
                 /\ value' = atCall.value
                 /\ undoStack' = atCall.undoStack
                 /\ redoStack' = atCall.redoStack))
       /\ ((lastOp = "undo" /\ atCall.undoStack # <<>> /\ lastOp' = "redo")
             => (/\ ~fault'
                 /\ value' = atCall.value
                 /\ undoStack' = atCall.undoStack
                 /\ redoStack' = atCall.redoStack))]_vars

\* C21: TextEditor::type(text) appends text to the current text, puts the
\* previous text on top of the undo stack and empties the redo stack; a redo()
\* made directly after a type() changes neither the text nor a stack and
\* prints "Nothing to redo".
RedoAfterTypeIsNoOp ==
    [][/\ (editorOp'[2] = "type"
             => (/\ currentText' = currentText \o Top(typed')
                 /\ editorUndoStack' = Push(editorUndoStack, currentText)
                 /\ editorRedoStack' = <<>>))
       /\ ((editorOp[2] = "type" /\ editorOp'[2] = "redo")
             => (/\ UNCHANGED <<currentText, editorUndoStack, editorRedoStack>>
                 /\ editorOut' = "Nothing to redo"))]_vars

\* C21 witness: after two texts were typed, one undone and another typed, a
\* redo() has been made directly after the type().
RedoAfterTypeSeen ==
    /\ editorOp = <<"type", "redo">>
    /\ editorOut = "Nothing to redo"
    /\ typed = <<"Hello", "!">>
    /\ currentText = "Hello!"
    /\ Len(editorUndoStack) = 2

\* C22: the text is the typed and not undone texts joined in typing order, so
\* an undo() gives back the text before the last not-undone type() and a redo()
\* the text the matching undo() replaced; with nothing left to undo the text
\* is empty; undo() and redo() on an empty stack change nothing.
EditorUndoRedoRestore ==
    /\ [](/\ currentText = Joined(typed)
          /\ Len(editorUndoStack) = Len(typed)
          /\ Len(editorRedoStack) = Len(undone)
          /\ (editorUndoStack = <<>> => currentText = ""))
    /\ [][/\ ((editorOp'[2] = "undo" /\ editorUndoStack # <<>>)
                => (/\ currentText' = Joined(Pop(typed))
                    /\ Top(editorRedoStack') = currentText))
          /\ ((editorOp'[2] = "redo" /\ editorRedoStack # <<>>)
                => (/\ currentText' = Top(editorRedoStack)
                    /\ currentText' = Joined(Push(typed, Top(undone)))))
          /\ ((editorOp'[2] = "undo" /\ editorUndoStack = <<>>)
                => (/\ UNCHANGED <<currentText, editorUndoStack,
                                   editorRedoStack>>
                    /\ editorOut' = "Nothing to undo"))
          /\ ((editorOp'[2] = "redo" /\ editorRedoStack = <<>>)
                => (/\ UNCHANGED <<currentText, editorUndoStack,
                                   editorRedoStack>>
                    /\ editorOut' = "Nothing to redo"))]_vars

\* C22 witness: three texts were typed, all three undone (the text is empty
\* again) and the first one redone.
EditorRestoredSeen ==
    /\ editorOp = <<"undo", "redo">>
    /\ typed = <<"Hello">>
    /\ Len(undone) = MaxEdits - 1
    /\ currentText = "Hello"
    /\ editorUndoStack = <<"">>

\* C23: 0 <= count <= capacity always; write() on a full buffer and read() on
\* an empty one return false and change nothing (read() leaves the caller's
\* int alone); every other write() returns true with count + 1 and every
\* other read() returns true with count - 1.
BufferCallsBounded ==
    /\ [](0 <= count /\ count <= bufferCapacity)
    /\ [][/\ (bufferOp' = "write"
                => IF count = bufferCapacity
                   THEN /\ ret' = FALSE
                        /\ UNCHANGED <<buffer, bufferCapacity, writePtr,
                                       readPtr, count, slot>>
                   ELSE /\ ret' = TRUE
                        /\ count' = count + 1)
          /\ (bufferOp' = "read"
                => IF count = 0
                   THEN /\ ret' = FALSE
                        /\ UNCHANGED <<buffer, bufferCapacity, writePtr,
                                       readPtr, count, slot>>
                   ELSE /\ ret' = TRUE
                        /\ count' = count - 1)]_vars

\* C23 witness: a write() on a full buffer of the largest capacity, which has
\* been read from before, has returned false.
BufferFullSeen ==
    /\ bufferOp = "write"
    /\ ret = FALSE
    /\ bufferCapacity = MaxCap
    /\ count = MaxCap
    /\ written > MaxCap

\* C24: every successful read() returns the oldest value written and not yet
\* read, and the buffer holds exactly the values written and not yet read.
BufferIsFifo ==
    /\ [](/\ Len(pending) = count
          /\ \A i \in 1..Len(pending) :
                 buffer[((readPtr + i - 1) % bufferCapacity) + 1] = pending[i])
    /\ [][(bufferOp' = "read" /\ ret' = TRUE)
            => (/\ pending # <<>>
                /\ slot' = Head(pending)
                /\ pending' = Tail(pending))]_vars

\* C24 witness: MaxWrites values went through a buffer of MaxCap cells, so the
\* positions wrapped around more than once, and the last one was just read.
BufferWrappedSeen ==
    /\ bufferOp = "read"
    /\ ret = TRUE
    /\ bufferCapacity = MaxCap
    /\ written = MaxWrites
    /\ count = 0
    /\ slot = 20

\* C25: with capacity N >= 1 both positions are inside [buffer, buffer + N)
\* between calls, and the write position is the read position advanced by
\* count modulo N.
BufferPositionsInside ==
    bufferCapacity >= 1
        => /\ readPtr \in 0..(bufferCapacity - 1)
           /\ writePtr \in 0..(bufferCapacity - 1)
           /\ writePtr = (readPtr + count) % bufferCapacity

\* C25 witness: a full buffer whose positions meet in the middle of the cells.
BufferMeetSeen ==
    /\ bufferCapacity = MaxCap
    /\ count = MaxCap
    /\ readPtr = writePtr
    /\ readPtr = MaxCap - 1

\* C26: 0 <= size <= capacity always; capacity is 2 at first and changes only
\* in a push() that finds size = capacity, where it doubles; every push() adds
\* one to size; the cells 0..size-1 hold the pushed values in push order,
\* whatever resizes happened.
ArrayGrowsByDoubling ==
    /\ [](/\ 0 <= size /\ size <= arrayCapacity
          /\ Len(data) = arrayCapacity
          /\ (pushed = <<>> => arrayCapacity = 2)
          /\ size = Len(pushed)
          /\ \A i \in 1..size : data[i] = pushed[i])
    /\ [][/\ (arrayCapacity' # arrayCapacity
                => (/\ pushed' # pushed
                    /\ size = arrayCapacity
                    /\ arrayCapacity' = 2 * arrayCapacity))
          /\ (pushed' # pushed
                => (/\ size' = size + 1
                    /\ (size = arrayCapacity
                          => arrayCapacity' = 2 * arrayCapacity)))]_vars

\* C26 witness: five values were pushed, the array was resized twice (2 to 4
\* to 8) and the first value pushed was read back.
ArrayResizedSeen ==
    /\ size = 5
    /\ arrayCapacity = 8
    /\ pushed[1] = 2 /\ pushed[5] = 1
    /\ element = 2

\* C27: get(key) returns the object of the last put(key, ...) exactly when
\* there was such a put and the object still has an owner outside the cache,
\* and null otherwise; a get() that finds an expired entry erases it; size()
\* is the number of keys whose stored object still has an owner; no call of
\* the cache changes which objects have owners, other than by what get()
\* hands to its caller.
CacheHoldsNoObject ==
    [][/\ (cacheOp'[1] = "get"
             => LET key == cacheOp'[2] IN
                /\ got' = IF key \in DOMAIN stored /\ Alive(stored[key])
                          THEN stored[key] ELSE NoObject
                /\ ((key \in DOMAIN cache /\ ~Alive(cache[key]))
                      => key \notin DOMAIN cache')
                /\ \A k \in DOMAIN cache \ {key} :
                       k \in DOMAIN cache' /\ cache'[k] = cache[k])
       /\ (cacheOp'[1] = "size"
             => counted' = Cardinality({k \in DOMAIN stored :
                                           Alive(stored[k])}))
       /\ (cacheOp'[1] \in {"put", "get", "size", "cleanup"}
             => owned' = owned)
       /\ (cacheOp'[1] \in {"put", "size", "cleanup"} => got' = got)]_vars

\* C27 witness: key1 and key2 were put, the object of key1 lost its last
\* owner, and get("key1") returned null and erased the entry while key2 stays.
CacheExpiredSeen ==
    /\ cacheOp = <<"get", "key1">>
    /\ got = NoObject
    /\ "key1" \in DOMAIN stored /\ stored["key1"] # NoObject
    /\ DOMAIN cache = {"key2"}
    /\ Alive(cache["key2"])

\* C28: isBalanced returns true exactly when the brackets of the expression,
\* every other character ignored, are correctly nested (taking out adjacent
\* pairs leaves nothing); it returns false at the first character up to which
\* some closing bracket has no partner, and otherwise at the end, false there
\* exactly when an opener is left unclosed.
BalancedIffNested ==
    verdict # NoVerdict
        => /\ verdict.balanced = (Reduced(Brackets(expression)) = <<>>)
           /\ LET Bad(i) == \E j \in 1..Len(Reduced(Brackets(SubSeq(expression, 1, i)))) :
                                Reduced(Brackets(SubSeq(expression, 1, i)))[j]
                                    \in Closers
              IN /\ verdict.at # 0
                     => /\ expression[verdict.at] \in Closers
                        /\ Bad(verdict.at)
                        /\ \A i \in 1..(verdict.at - 1) : ~Bad(i)
                 /\ verdict.at = 0
                     => /\ \A i \in 1..Len(expression) : ~Bad(i)
                        /\ verdict.balanced
                               = (\A j \in 1..Len(Reduced(Brackets(expression))) :
                                      Reduced(Brackets(expression))[j]
                                          \notin Openers)

\* C28 witness: isBalanced has returned false at the mismatched closer of an
\* expression that starts with another character.
BalancedMismatchSeen ==
    /\ verdict # NoVerdict
    /\ expression = <<"a", "[", "(", "]">>
    /\ verdict = [balanced |-> FALSE, at |-> 4]

====
